---- MODULE Spec2Model ----
(***************************************************************************)
(* Model of Sources/libpylamsupport/LambdaBuilder.c: the symbol table      *)
(* initialiser (initialisePythonLibrary) and the marshalling shim built on *)
(* the six process-wide function-pointer slots.                            *)
(*                                                                         *)
(* A library handle is a number 1..NumLibs; Exports(h) is the set of       *)
(* symbols the library image behind h defines.  An address is a number     *)
(* that identifies the library and the function living there, so that a    *)
(* call through a slot is a call of whatever function the slot's address   *)
(* belongs to.  The Python runtime is the environment: what an entry point *)
(* returns and stores is chosen with \E from small sets.                   *)
(***************************************************************************)
EXTENDS Integers, Sequences, FiniteSets, TLC

\* ------------------------------------------------------------ bounds
NumLibs == 4      \* library handles 1..NumLibs the host may pass
MaxVal == 2       \* native values / opaque object handles are 1..MaxVal
MaxStatus == 2    \* an entry point's int status is 0..MaxStatus
MaxInits == 2     \* initialisePythonLibrary calls the threads of one run begin
ConcLibs == 2     \* the handles 1..ConcLibs the threads pass

\* ------------------------------------------------------------ constants
NULL == 0

Handles == 1..NumLibs
Values == 1..MaxVal
Status == 0..MaxStatus
\* What the host may pass to a shim function: a native number, or a pointer
\* (an object handle, a string, a tuple) that may be NULL.
Inputs == 0..MaxVal
\* What an uninitialised local or a missing return value may hold.
Indeterminate == 0..MaxVal

\* The six symbol names, in the order the initialiser resolves them.
SymbolNames ==
    << "PyArg_ParseTuple", "Py_BuildValue", "PyUnicode_AsUTF8",
       "PyUnicode_FromString", "PyBool_FromLong", "PyCFunction_NewEx" >>

Symbols == { SymbolNames[i] : i \in DOMAIN SymbolNames }

SymIndex(sym) == CHOOSE i \in DOMAIN SymbolNames : SymbolNames[i] = sym

\* ------------------------------------------------------------ environment
\* The images the host may have loaded: a Python 3 runtime defines all six
\* symbols, a Python 2 runtime lacks the PyUnicode_* pair, and a library that
\* is no Python runtime defines none.  Handles cycle through the three kinds.
Exports(h) ==
    CASE h % 3 = 1 -> Symbols
      [] h % 3 = 2 -> Symbols \ {"PyUnicode_FromString", "PyUnicode_AsUTF8"}
      [] OTHER     -> {}

\* The address of symbol sym inside the image behind h (never NULL).
Addr(h, sym) == h * 10 + SymIndex(sym)

\* dlsym / GetProcAddress: the symbol's address, or NULL when it is absent.
dlsym(h, sym) == IF sym \in Exports(h) THEN Addr(h, sym) ELSE NULL

\* The function that lives at a non-null address.
FnAt(a) == SymbolNames[a % 10]

\* ------------------------------------------------------------ state
VARIABLES
    pythonLibraryHandle,    \* static void* _pythonLibraryHandle
    pyarg_parsetuple,       \* the six process-wide function-pointer slots
    py_buildvalue,
    pyunicode_asutf8,
    pyunicode_fromstring,
    py_createPyCFunction,
    py_boolfromlong,
    build,                  \* which branch of #ifdef _WIN32 was compiled
    proc,                   \* "running", "exited" (exit()) or "crashed"
    exitStatus,             \* the argument of exit(), once proc = "exited"
    last,                   \* what the last completed call did and produced
    pc,                     \* per thread: where it is inside initialisePythonLibrary
    libraryHandle,          \* per thread: the parameter of its running call
    loaded,                 \* per thread: the handle read for its pending lookup
    started,                \* how many threaded initialisePythonLibrary calls began
    overlapped,             \* history: two initialisePythonLibrary calls ran at once
    seen                    \* history: a shim call ran while an initialisePythonLibrary
                            \* call was running and met a table no one handle resolves to

slotVars ==
    << pyarg_parsetuple, py_buildvalue, pyunicode_asutf8,
       pyunicode_fromstring, py_createPyCFunction, py_boolfromlong >>

threadVars == << pc, libraryHandle, loaded, started, overlapped, seen >>

vars ==
    << pythonLibraryHandle, slotVars, build, proc, exitStatus, last, threadVars >>

Threads == {"t1", "t2"}

\* The slot table, keyed by the symbol each slot is resolved from.
Slots ==
    [ PyArg_ParseTuple     |-> pyarg_parsetuple,
      Py_BuildValue        |-> py_buildvalue,
      PyUnicode_AsUTF8     |-> pyunicode_asutf8,
      PyUnicode_FromString |-> pyunicode_fromstring,
      PyBool_FromLong      |-> py_boolfromlong,
      PyCFunction_NewEx    |-> py_createPyCFunction ]

\* The record of one completed call of the shim's API.  before is history:
\* for initialisePythonLibrary, the _pythonLibraryHandle the call found.
Outcome(op, args, kind, value, error, objectB, objectC, calls, lookups, stdout) ==
    [ op |-> op, args |-> args, kind |-> kind, value |-> value, error |-> error,
      objectB |-> objectB, objectC |-> objectC, calls |-> calls,
      lookups |-> lookups, stdout |-> stdout, before |-> NULL ]

NoCall == Outcome("none", << >>, "return", NULL, NULL, NULL, NULL, << >>, << >>, << >>)

\* The slot table is what the lookups in one handle give, or still all NULL.
FromOneHandle ==
    \/ \A sym \in Symbols : Slots[sym] = NULL
    \/ \E h \in Handles : \A sym \in Symbols : Slots[sym] = dlsym(h, sym)

\* A thread's position: outside initialisePythonLibrary, or inside it at
\* "handle" (line 21), at the "load" or the "store" of the i-th lookup
\* (lines 30 to 35), or at "return" (line 37).
Idle == [ at |-> "idle", i |-> 0 ]

\* Static storage is zero-initialised: every slot and the handle start NULL.
Init ==
    /\ pythonLibraryHandle = NULL
    /\ pyarg_parsetuple = NULL
    /\ py_buildvalue = NULL
    /\ pyunicode_asutf8 = NULL
    /\ pyunicode_fromstring = NULL
    /\ py_createPyCFunction = NULL
    /\ py_boolfromlong = NULL
    /\ build \in {"posix", "win32"}
    /\ proc = "running"
    /\ exitStatus = NULL
    /\ last = NoCall
    /\ pc = [t \in Threads |-> Idle]
    /\ libraryHandle = [t \in Threads |-> NULL]
    /\ loaded = [t \in Threads |-> NULL]
    /\ started = 0
    /\ overlapped = FALSE
    /\ seen = FALSE

\* No initialisePythonLibrary call is in progress on any thread.
Quiescent == \A t \in Threads : pc[t] = Idle

\* ------------------------------------------------------------ helpers
\* Mutant: the lookups go to the handle the static held when the call began.
LookupHandle_stale(b, param, global) == IF b = "win32" THEN param ELSE pythonLibraryHandle

\* The handle a lookup is made against.  The _WIN32 branch passes the
\* parameter to GetProcAddress; the other branch passes the static
\* _pythonLibraryHandle, which line 21 has set by then.
LookupHandle(b, param, global) == IF b = "win32" THEN param ELSE global

\* Mutant: the PyBool_FromLong slot is resolved under its neighbour's name.
Resolve_misnamed(h, sym) ==
    dlsym(h, IF sym = "PyBool_FromLong" THEN "PyCFunction_NewEx" ELSE sym)

\* What one assignment of the initialiser stores in its slot: the result of
\* looking the quoted name up in the handle, NULL included.
Resolve(h, sym) == dlsym(h, sym)

\* One symbol lookup, as logged in last.lookups.
Lookup(h, sym) == [ handle |-> h, sym |-> sym, result |-> Resolve(h, sym) ]

\* A call through a non-null function pointer: which function was entered,
\* with which format and arguments, what it returned and what it stored
\* through the output pointers it was given (stored: position -> value).
CallThrough(target, fmt, args, ret, stored) ==
    [ target |-> target, fn |-> FnAt(target), fmt |-> fmt, args |-> args,
      ret |-> ret, stored |-> stored ]

\* What PyArg_ParseTuple may do when given n output pointers: return any
\* status and store into any subset of the pointers.
ParseEffects(n) ==
    { [ ret |-> r, stored |-> st ] :
        r \in Status, st \in UNION { [S -> Values] : S \in SUBSET (1..n) } }

\* A local after the call: what was stored into it, else still indeterminate
\* (garbage: what each local that was not stored into happens to hold).
Local(stored, garbage, i) == IF i \in DOMAIN stored THEN stored[i] ELSE garbage[i]

\* The host has moved on from its previous call: last describes a call only
\* until the host continues.
Taken == last.op = "none"

\* The caller of a shim function is a thread that is not inside
\* initialisePythonLibrary, in a process that is still alive.
Callable ==
    /\ proc = "running"
    /\ Taken
    /\ \E t \in Threads : pc[t] = Idle

\* A completed call that returned to its caller.
Returns(o) ==
    /\ last' = o
    /\ proc' = proc
    /\ exitStatus' = exitStatus

\* Mutant: a NULL slot is skipped and NULL handed back as if the call succeeded.
NullCall_silent(op, args) ==
    Returns(Outcome(op, args, "return", NULL, NULL, NULL, NULL, << >>, << >>, << >>))

\* A call through a NULL function pointer: control is transferred to address
\* 0, which no supported platform maps, and the process dies of the fault
\* before the shim function produces anything.
NullCall(op, args) ==
    /\ last' = Outcome(op, args, "nullcall", NULL, NULL, NULL, NULL, << >>, << >>, << >>)
    /\ proc' = "crashed"
    /\ exitStatus' = exitStatus

\* Mutant: a shim function re-resolves a slot of its own on the way.
ShimFrame_reresolve ==
    /\ pyunicode_asutf8' = dlsym(pythonLibraryHandle, "PyUnicode_FromString")
    /\ UNCHANGED << pythonLibraryHandle, pyarg_parsetuple, py_buildvalue,
                    pyunicode_fromstring, py_createPyCFunction, py_boolfromlong, build >>
    /\ UNCHANGED << pc, libraryHandle, loaded, started, overlapped >>
    /\ seen' = (seen \/ (~Quiescent /\ ~FromOneHandle))

\* What every function other than initialisePythonLibrary leaves alone.
ShimFrame ==
    /\ UNCHANGED << pythonLibraryHandle, slotVars, build >>
    /\ UNCHANGED << pc, libraryHandle, loaded, started, overlapped >>
    /\ seen' = (seen \/ (~Quiescent /\ ~FromOneHandle))

\* ------------------------------------------------------------ initialiser
\* The body of int initialisePythonLibrary(void* libraryHandle) for the
\* parameter h, run to completion.  The function has no return statement: r
\* is the indeterminate int its caller would read.
Initialise(h, r) ==
    /\ pythonLibraryHandle' = h
    /\ LET from == LookupHandle(build, h, pythonLibraryHandle')
       IN  /\ pyarg_parsetuple' = Resolve(from, "PyArg_ParseTuple")
           /\ py_buildvalue' = Resolve(from, "Py_BuildValue")
           /\ pyunicode_asutf8' = Resolve(from, "PyUnicode_AsUTF8")
           /\ pyunicode_fromstring' = Resolve(from, "PyUnicode_FromString")
           /\ py_boolfromlong' = Resolve(from, "PyBool_FromLong")
           /\ py_createPyCFunction' = Resolve(from, "PyCFunction_NewEx")
           /\ Returns([ Outcome("initialisePythonLibrary", << h >>, "return", r,
                                NULL, NULL, NULL, << >>,
                                [ i \in DOMAIN SymbolNames |->
                                    Lookup(from, SymbolNames[i]) ],
                                << >>)
                         EXCEPT !.before = pythonLibraryHandle ])

\* Mutant: the initialiser treats a missing symbol as fatal.
initialisePythonLibrary_strict ==
    /\ proc = "running"
    /\ Taken \/ last.op = "initialisePythonLibrary"
    /\ Quiescent
    /\ \E h \in Handles, r \in Indeterminate :
        IF Symbols \subseteq Exports(h)
        THEN Initialise(h, r)
        ELSE /\ pythonLibraryHandle' = h
             /\ UNCHANGED slotVars
             /\ proc' = "exited"
             /\ exitStatus' = 1
             /\ last' = [ Outcome("initialisePythonLibrary", << h >>, "exit", NULL,
                                  NULL, NULL, NULL, << >>, << >>, << >>)
                          EXCEPT !.before = pythonLibraryHandle ]
    /\ UNCHANGED << build, threadVars >>

\* A call of initialisePythonLibrary with no other thread inside the API.
\* It may follow another initialisePythonLibrary call directly.
initialisePythonLibrary ==
    /\ proc = "running"
    /\ Taken \/ last.op = "initialisePythonLibrary"
    /\ Quiescent
    /\ \E h \in Handles, r \in Indeterminate : Initialise(h, r)
    /\ UNCHANGED << build, threadVars >>

\* ------------------------------------------------------------ parse operations
\* Each passes the argument tuple, its format and the addresses of its
\* uninitialised locals to (*pyarg_parsetuple), then copies the int status
\* to *error and the locals to the caller.

parseArgsToString ==
    /\ Callable
    /\ \E args \in Inputs, e \in ParseEffects(1) :
      \E g \in [(1..1) \ DOMAIN e.stored -> Indeterminate] :
        IF pyarg_parsetuple = NULL
        THEN NullCall("parseArgsToString", << args >>)
        ELSE LET value == Local(e.stored, g, 1)
                 result == e.ret
             IN  Returns(Outcome("parseArgsToString", << args >>, "return", value, result,
                                 NULL, NULL,
                                 << CallThrough(pyarg_parsetuple, "s", << args >>,
                                                e.ret, e.stored) >>,
                                 << >>, << >>))
    /\ ShimFrame

parseArgsToDouble ==
    /\ Callable
    /\ \E args \in Inputs, e \in ParseEffects(1) :
      \E g \in [(1..1) \ DOMAIN e.stored -> Indeterminate] :
        IF pyarg_parsetuple = NULL
        THEN NullCall("parseArgsToDouble", << args >>)
        ELSE LET value == Local(e.stored, g, 1)
                 result == e.ret
             IN  Returns(Outcome("parseArgsToDouble", << args >>, "return", value, result,
                                 NULL, NULL,
                                 << CallThrough(pyarg_parsetuple, "d", << args >>,
                                                e.ret, e.stored) >>,
                                 << >>, << >>))
    /\ ShimFrame

parseArgsToLongInt ==
    /\ Callable
    /\ \E args \in Inputs, e \in ParseEffects(1) :
      \E g \in [(1..1) \ DOMAIN e.stored -> Indeterminate] :
        IF pyarg_parsetuple = NULL
        THEN NullCall("parseArgsToLongInt", << args >>)
        ELSE LET value == Local(e.stored, g, 1)
                 result == e.ret
             IN  Returns(Outcome("parseArgsToLongInt", << args >>, "return", value, result,
                                 NULL, NULL,
                                 << CallThrough(pyarg_parsetuple, "l", << args >>,
                                                e.ret, e.stored) >>,
                                 << >>, << >>))
    /\ ShimFrame

parseArgsToObject ==
    /\ Callable
    /\ \E args \in Inputs, e \in ParseEffects(1) :
      \E g \in [(1..1) \ DOMAIN e.stored -> Indeterminate] :
        IF pyarg_parsetuple = NULL
        THEN NullCall("parseArgsToObject", << args >>)
        ELSE LET value == Local(e.stored, g, 1)
                 result == e.ret
             IN  Returns(Outcome("parseArgsToObject", << args >>, "return", value, result,
                                 NULL, NULL,
                                 << CallThrough(pyarg_parsetuple, "O", << args >>,
                                                e.ret, e.stored) >>,
                                 << >>, << >>))
    /\ ShimFrame

\* Mutant: the status is interpreted, and a failed parse hands back NULLs.
parseArgsToObjectPair_checked ==
    /\ Callable
    /\ \E args \in Inputs, e \in ParseEffects(2) :
      \E g \in [(1..2) \ DOMAIN e.stored -> Indeterminate] :
        IF pyarg_parsetuple = NULL
        THEN NullCall("parseArgsToObjectPair", << args >>)
        ELSE LET valueA == IF e.ret = 0 THEN NULL ELSE Local(e.stored, g, 1)
                 valueB == IF e.ret = 0 THEN NULL ELSE Local(e.stored, g, 2)
                 result == e.ret
             IN  Returns(Outcome("parseArgsToObjectPair", << args >>, "return", valueA,
                                 result, valueB, NULL,
                                 << CallThrough(pyarg_parsetuple, "OO", << args >>,
                                                e.ret, e.stored) >>,
                                 << >>, << >>))
    /\ ShimFrame

parseArgsToObjectPair ==
    /\ Callable
    /\ \E args \in Inputs, e \in ParseEffects(2) :
      \E g \in [(1..2) \ DOMAIN e.stored -> Indeterminate] :
        IF pyarg_parsetuple = NULL
        THEN NullCall("parseArgsToObjectPair", << args >>)
        ELSE LET valueA == Local(e.stored, g, 1)
                 valueB == Local(e.stored, g, 2)
                 result == e.ret
             IN  Returns(Outcome("parseArgsToObjectPair", << args >>, "return", valueA,
                                 result, valueB, NULL,
                                 << CallThrough(pyarg_parsetuple, "OO", << args >>,
                                                e.ret, e.stored) >>,
                                 << >>, << >>))
    /\ ShimFrame

parseArgsToObjectTriple ==
    /\ Callable
    /\ \E args \in Inputs, e \in ParseEffects(3) :
      \E g \in [(1..3) \ DOMAIN e.stored -> Indeterminate] :
        IF pyarg_parsetuple = NULL
        THEN NullCall("parseArgsToObjectTriple", << args >>)
        ELSE LET valueA == Local(e.stored, g, 1)
                 valueB == Local(e.stored, g, 2)
                 valueC == Local(e.stored, g, 3)
                 result == e.ret
             IN  Returns(Outcome("parseArgsToObjectTriple", << args >>, "return", valueA,
                                 result, valueB, valueC,
                                 << CallThrough(pyarg_parsetuple, "OOO", << args >>,
                                                e.ret, e.stored) >>,
                                 << >>, << >>))
    /\ ShimFrame

\* ------------------------------------------------------------ wrap operations
\* pyValue is whatever the entry point returns: an object handle, or NULL.

wrapLongInt ==
    /\ Callable
    /\ \E value \in Inputs, pyValue \in Indeterminate :
        IF py_buildvalue = NULL
        THEN NullCall("wrapLongInt", << value >>)
        ELSE Returns(Outcome("wrapLongInt", << value >>, "return", pyValue, NULL,
                             NULL, NULL,
                             << CallThrough(py_buildvalue, "l", << value >>,
                                            pyValue, << >>) >>,
                             << >>, << >>))
    /\ ShimFrame

wrapString ==
    /\ Callable
    /\ \E value \in Inputs, pyValue \in Indeterminate :
        IF py_buildvalue = NULL
        THEN NullCall("wrapString", << value >>)
        ELSE Returns(Outcome("wrapString", << value >>, "return", pyValue, NULL,
                             NULL, NULL,
                             << CallThrough(py_buildvalue, "s", << value >>,
                                            pyValue, << >>) >>,
                             << >>, << >>))
    /\ ShimFrame

wrapDouble ==
    /\ Callable
    /\ \E value \in Inputs, pyValue \in Indeterminate :
        IF py_buildvalue = NULL
        THEN NullCall("wrapDouble", << value >>)
        ELSE Returns(Outcome("wrapDouble", << value >>, "return", pyValue, NULL,
                             NULL, NULL,
                             << CallThrough(py_buildvalue, "d", << value >>,
                                            pyValue, << >>) >>,
                             << >>, << >>))
    /\ ShimFrame

wrapObject ==
    /\ Callable
    /\ \E value \in Inputs, pyValue \in Indeterminate :
        IF py_buildvalue = NULL
        THEN NullCall("wrapObject", << value >>)
        ELSE Returns(Outcome("wrapObject", << value >>, "return", pyValue, NULL,
                             NULL, NULL,
                             << CallThrough(py_buildvalue, "O", << value >>,
                                            pyValue, << >>) >>,
                             << >>, << >>))
    /\ ShimFrame

\* Mutant: the bool is built with Py_BuildValue("l", value).
wrapBool_viaBuildValue ==
    /\ Callable
    /\ \E value \in Inputs, pyValue \in Indeterminate :
        IF py_buildvalue = NULL
        THEN NullCall("wrapBool", << value >>)
        ELSE Returns(Outcome("wrapBool", << value >>, "return", pyValue, NULL,
                             NULL, NULL,
                             << CallThrough(py_buildvalue, "l", << value >>,
                                            pyValue, << >>) >>,
                             << >>, << >>))
    /\ ShimFrame

wrapBool ==
    /\ Callable
    /\ \E value \in Inputs, pyValue \in Indeterminate :
        IF py_boolfromlong = NULL
        THEN NullCall("wrapBool", << value >>)
        ELSE Returns(Outcome("wrapBool", << value >>, "return", pyValue, NULL,
                             NULL, NULL,
                             << CallThrough(py_boolfromlong, "", << value >>,
                                            pyValue, << >>) >>,
                             << >>, << >>))
    /\ ShimFrame

\* ------------------------------------------------------------ library shims
stringFromPythonObject ==
    /\ Callable
    /\ \E p \in Inputs, ret \in Indeterminate :
        IF pyunicode_asutf8 = NULL
        THEN NullCall("stringFromPythonObject", << p >>)
        ELSE Returns(Outcome("stringFromPythonObject", << p >>, "return", ret, NULL,
                             NULL, NULL,
                             << CallThrough(pyunicode_asutf8, "", << p >>, ret, << >>) >>,
                             << >>, << >>))
    /\ ShimFrame

\* Mutant: the NULL test is missing, as in every other shim function.
getPyUnicode_FromString_unchecked ==
    /\ Callable
    /\ \E u \in Inputs, ret \in Indeterminate :
        IF pyunicode_fromstring = NULL
        THEN NullCall("getPyUnicode_FromString", << u >>)
        ELSE Returns(Outcome("getPyUnicode_FromString", << u >>, "return", ret, NULL,
                             NULL, NULL,
                             << CallThrough(pyunicode_fromstring, "", << u >>, ret, << >>) >>,
                             << >>, << >>))
    /\ ShimFrame

\* The one function that tests its slot: a NULL slot prints the diagnostic
\* and ends the process with exit(1).
getPyUnicode_FromString ==
    /\ Callable
    /\ \E u \in Inputs, ret \in Indeterminate :
        IF pyunicode_fromstring = NULL
        THEN /\ last' = Outcome("getPyUnicode_FromString", << u >>, "exit", NULL, NULL,
                                NULL, NULL, << >>, << >>,
                                << [ text |-> "Lambda functions not available on Python 2!\n",
                                     args |-> << >> ] >>)
             /\ proc' = "exited"
             /\ exitStatus' = 1
        ELSE Returns(Outcome("getPyUnicode_FromString", << u >>, "return", ret, NULL,
                             NULL, NULL,
                             << CallThrough(pyunicode_fromstring, "", << u >>, ret, << >>) >>,
                             << >>, << >>))
    /\ ShimFrame

\* Mutant: data is passed as the module argument too.
createPyCFunction_dataAsModule ==
    /\ Callable
    /\ \E ml \in Inputs, data \in Inputs, ret \in Indeterminate :
        IF py_createPyCFunction = NULL
        THEN NullCall("createPyCFunction", << ml, data >>)
        ELSE Returns(Outcome("createPyCFunction", << ml, data >>, "return", ret, NULL,
                             NULL, NULL,
                             << CallThrough(py_createPyCFunction, "", << ml, data, data >>,
                                            ret, << >>) >>,
                             << >>, << >>))
    /\ ShimFrame

createPyCFunction ==
    /\ Callable
    /\ \E ml \in Inputs, data \in Inputs, ret \in Indeterminate :
        IF py_createPyCFunction = NULL
        THEN NullCall("createPyCFunction", << ml, data >>)
        ELSE Returns(Outcome("createPyCFunction", << ml, data >>, "return", ret, NULL,
                             NULL, NULL,
                             << CallThrough(py_createPyCFunction, "", << ml, data, NULL >>,
                                            ret, << >>) >>,
                             << >>, << >>))
    /\ ShimFrame

\* Prints the name and the pointer's numeric value; calls through no slot.
debug_showAddress ==
    /\ Callable
    /\ \E varName \in Values, value \in Inputs :
        Returns(Outcome("debug_showAddress", << varName, value >>, "return", NULL, NULL,
                        NULL, NULL, << >>, << >>,
                        << [ text |-> "variable %s has value %#llx\n",
                             args |-> << varName, value >> ] >>))
    /\ ShimFrame

\* The host goes on after the call that just returned, keeping or dropping
\* what it produced; nothing of the shim's own state changes.
HostContinues ==
    /\ proc = "running"
    /\ ~Taken
    /\ last' = NoCall
    /\ UNCHANGED << pythonLibraryHandle, slotVars, build, proc, exitStatus, threadVars >>

ParseOps ==
    { "parseArgsToString", "parseArgsToDouble", "parseArgsToLongInt",
      "parseArgsToObject", "parseArgsToObjectPair", "parseArgsToObjectTriple" }

WrapOps == { "wrapLongInt", "wrapString", "wrapDouble", "wrapObject", "wrapBool" }

\* The functions that call through a slot.
ShimOps ==
    ParseOps \cup WrapOps
        \cup { "stringFromPythonObject", "getPyUnicode_FromString", "createPyCFunction" }

\* ------------------------------------------------------------ specification
\* Calls of the API made one at a time, each run to completion.
Next ==
    \/ initialisePythonLibrary
    \/ parseArgsToString
    \/ parseArgsToDouble
    \/ parseArgsToLongInt
    \/ parseArgsToObject
    \/ parseArgsToObjectPair
    \/ parseArgsToObjectTriple
    \/ wrapLongInt
    \/ wrapString
    \/ wrapDouble
    \/ wrapObject
    \/ wrapBool
    \/ stringFromPythonObject
    \/ getPyUnicode_FromString
    \/ createPyCFunction
    \/ debug_showAddress
    \/ HostContinues

Spec == Init /\ [][Next]_vars

\* ------------------------------------------------------------ threads
\* initialisePythonLibrary as the threads of the host run it: one step for
\* each access to the shared statics, with nothing guarding them.

\* Mutant: the last assignment, to py_createPyCFunction, is missing.
SetSlot_withoutLast(i, v) ==
    /\ pyarg_parsetuple' = IF i = 1 THEN v ELSE pyarg_parsetuple
    /\ py_buildvalue' = IF i = 2 THEN v ELSE py_buildvalue
    /\ pyunicode_asutf8' = IF i = 3 THEN v ELSE pyunicode_asutf8
    /\ pyunicode_fromstring' = IF i = 4 THEN v ELSE pyunicode_fromstring
    /\ py_boolfromlong' = IF i = 5 THEN v ELSE py_boolfromlong
    /\ py_createPyCFunction' = py_createPyCFunction

\* The assignment to the i-th slot, in the order of lines 30 to 35.
SetSlot(i, v) ==
    /\ pyarg_parsetuple' = IF i = 1 THEN v ELSE pyarg_parsetuple
    /\ py_buildvalue' = IF i = 2 THEN v ELSE py_buildvalue
    /\ pyunicode_asutf8' = IF i = 3 THEN v ELSE pyunicode_asutf8
    /\ pyunicode_fromstring' = IF i = 4 THEN v ELSE pyunicode_fromstring
    /\ py_boolfromlong' = IF i = 5 THEN v ELSE py_boolfromlong
    /\ py_createPyCFunction' = IF i = 6 THEN v ELSE py_createPyCFunction

\* A thread takes a step inside initialisePythonLibrary.  last describes a
\* completed call only until the host continues, so the steps are followed
\* from the states in which it has.
Stepping == proc = "running" /\ Taken

\* Thread t enters initialisePythonLibrary(h).
InitCall(t) ==
    /\ Stepping
    /\ pc[t] = Idle
    /\ started < MaxInits
    /\ \E h \in 1..ConcLibs :
        libraryHandle' = [libraryHandle EXCEPT ![t] = h]
    /\ pc' = [pc EXCEPT ![t] = [ at |-> "handle", i |-> 0 ]]
    /\ started' = started + 1
    /\ overlapped' = ~Quiescent
    /\ UNCHANGED << pythonLibraryHandle, slotVars, build, proc, exitStatus, last,
                    loaded, seen >>

\* Line 21: _pythonLibraryHandle = libraryHandle.
InitStoreHandle(t) ==
    /\ Stepping
    /\ pc[t].at = "handle"
    /\ pythonLibraryHandle' = libraryHandle[t]
    /\ pc' = [pc EXCEPT ![t] = [ at |-> "load", i |-> 1 ]]
    /\ UNCHANGED << slotVars, build, proc, exitStatus, last, libraryHandle, loaded,
                    started, overlapped, seen >>

\* Lines 30 to 35, first half: the handle argument of the i-th lookup is read.
InitLoadHandle(t) ==
    /\ Stepping
    /\ pc[t].at = "load"
    /\ loaded' = [loaded EXCEPT ![t] =
                     LookupHandle(build, libraryHandle[t], pythonLibraryHandle)]
    /\ pc' = [pc EXCEPT ![t] = [ at |-> "store", i |-> pc[t].i ]]
    /\ UNCHANGED << pythonLibraryHandle, slotVars, build, proc, exitStatus, last,
                    libraryHandle, started, overlapped, seen >>

\* Lines 30 to 35, second half: the lookup's result is stored in the i-th slot.
InitStoreSlot(t) ==
    /\ Stepping
    /\ pc[t].at = "store"
    /\ SetSlot(pc[t].i, Resolve(loaded[t], SymbolNames[pc[t].i]))
    /\ pc' = [pc EXCEPT ![t] = IF pc[t].i < Len(SymbolNames)
                               THEN [ at |-> "load", i |-> pc[t].i + 1 ]
                               ELSE [ at |-> "return", i |-> 0 ]]
    /\ UNCHANGED << pythonLibraryHandle, build, proc, exitStatus, last,
                    libraryHandle, loaded, started, overlapped, seen >>

\* Line 37: the call returns and its parameter and temporaries are gone.  It
\* sets no value, and last, which describes calls that ran alone, is left as
\* it is.
InitReturn(t) ==
    /\ Stepping
    /\ pc[t].at = "return"
    /\ pc' = [pc EXCEPT ![t] = Idle]
    /\ libraryHandle' = [libraryHandle EXCEPT ![t] = NULL]
    /\ loaded' = [loaded EXCEPT ![t] = NULL]
    /\ UNCHANGED << pythonLibraryHandle, slotVars, build, proc, exitStatus, last,
                    started, overlapped, seen >>

\* Calls of the API from two threads with no synchronisation between them.
NextConc ==
    \/ \E t \in Threads : InitCall(t)
    \/ \E t \in Threads : InitStoreHandle(t)
    \/ \E t \in Threads : InitLoadHandle(t)
    \/ \E t \in Threads : InitStoreSlot(t)
    \/ \E t \in Threads : InitReturn(t)
    \/ stringFromPythonObject
    \/ HostContinues

SpecConc == Init /\ [][NextConc]_vars

\* ------------------------------------------------------------ properties
\* What the claims expect of each shim function: the entry point it calls
\* and the format it passes.
EntryPointOf(op) ==
    CASE op \in ParseOps -> "PyArg_ParseTuple"
      [] op \in {"wrapLongInt", "wrapString", "wrapDouble", "wrapObject"} -> "Py_BuildValue"
      [] op = "wrapBool" -> "PyBool_FromLong"
      [] op = "stringFromPythonObject" -> "PyUnicode_AsUTF8"
      [] op = "getPyUnicode_FromString" -> "PyUnicode_FromString"
      [] op = "createPyCFunction" -> "PyCFunction_NewEx"

FormatOf(op) ==
    CASE op \in {"parseArgsToString", "wrapString"} -> "s"
      [] op \in {"parseArgsToDouble", "wrapDouble"} -> "d"
      [] op \in {"parseArgsToLongInt", "wrapLongInt"} -> "l"
      [] op \in {"parseArgsToObject", "wrapObject"} -> "O"
      [] op = "parseArgsToObjectPair" -> "OO"
      [] op = "parseArgsToObjectTriple" -> "OOO"
      [] OTHER -> ""

\* The i-th native value a parse operation hands to its caller: the return
\* value, then *objectB, then *objectC.
Produced(o, i) == IF i = 1 THEN o.value ELSE IF i = 2 THEN o.objectB ELSE o.objectC

AllNull == \A sym \in Symbols : Slots[sym] = NULL

AfterInit == last.op = "initialisePythonLibrary"

\* C1: once a call initialisePythonLibrary(h) has completed, whatever calls
\* came before it, the stored handle is h and each of the six slots holds
\* exactly the lookup of its own symbol name in h; this stays so through the
\* shim calls that follow, so no slot keeps a value resolved from an earlier
\* handle.
C1_SlotsResolvedFromLastHandle ==
    /\ AfterInit =>
         /\ pythonLibraryHandle = last.args[1]
         /\ \A sym \in Symbols : Slots[sym] = dlsym(last.args[1], sym)
    /\ pythonLibraryHandle # NULL =>
         \A sym \in Symbols : Slots[sym] = dlsym(pythonLibraryHandle, sym)

\* A second initialisation, with a handle whose image resolves differently
\* from the one the slots were resolved from before.
C1_Witness ==
    /\ AfterInit
    /\ last.before \notin {NULL, last.args[1]}
    /\ \E sym \in Symbols : dlsym(last.before, sym) \notin {NULL, Slots[sym]}
    /\ \E sym \in Symbols : dlsym(last.before, sym) # NULL /\ Slots[sym] = NULL

\* C2: a symbol absent from the handle leaves its slot NULL, the call still
\* returns and the process lives on, and every symbol that is present is
\* resolved (non-NULL); the failure shows at the use of the NULL slot, where
\* the shim function does not return, while a function whose slot was
\* resolved returns normally.
C2_AbsentSymbolLeftNullUntilUse ==
    /\ AfterInit =>
         /\ last.kind = "return"
         /\ proc = "running"
         /\ \A sym \in Symbols :
              Slots[sym] = NULL <=> sym \notin Exports(last.args[1])
    /\ (last.op \in ShimOps /\ pythonLibraryHandle # NULL) =>
         IF Slots[EntryPointOf(last.op)] = NULL
         THEN last.kind \in {"nullcall", "exit"} /\ proc # "running"
         ELSE last.kind = "return" /\ proc = "running"

\* After initialising from an image that lacks PyUnicode_AsUTF8 but has the
\* rest, the first use of the NULL slot is where the failure shows.
C2_Witness ==
    /\ pythonLibraryHandle # NULL
    /\ "PyUnicode_AsUTF8" \notin Exports(pythonLibraryHandle)
    /\ pyarg_parsetuple # NULL
    /\ pyunicode_asutf8 = NULL
    /\ last.op = "stringFromPythonObject"
    /\ last.kind = "nullcall"

\* C3: initialisePythonLibrary is idempotent for a fixed handle: a call with
\* handle h made right after a call with the same h, whatever the state the
\* first one started from, leaves the six slots and the stored handle as the
\* first call left them.
C3_Idempotent ==
    [][ ( /\ last.op = "initialisePythonLibrary"
          /\ last'.op = "initialisePythonLibrary"
          /\ last'.args = last.args )
        => ( Slots' = Slots /\ pythonLibraryHandle' = pythonLibraryHandle ) ]_vars

\* The second of two calls in a row with the same handle, one whose image
\* has some of the symbols and lacks others.
C3_Witness ==
    /\ AfterInit
    /\ last.before = last.args[1]
    /\ \E sym \in Symbols : Slots[sym] # NULL
    /\ \E sym \in Symbols : Slots[sym] = NULL

\* C4: a parse operation that reached PyArg_ParseTuple writes the status the
\* entry point returned to *error unchanged, whatever the status is, and
\* hands back, position by position, the values the entry point stored
\* through its output pointers.
C4_ParsePassesStatusAndValues ==
    (last.op \in ParseOps /\ last.kind = "return") =>
        /\ Len(last.calls) = 1
        /\ last.error = last.calls[1].ret
        /\ \A i \in DOMAIN last.calls[1].stored :
             Produced(last, i) = last.calls[1].stored[i]

\* A failed parse (status 0) whose entry point stored two different values.
C4_Witness ==
    /\ last.op = "parseArgsToObjectPair"
    /\ last.kind = "return"
    /\ last.calls[1].ret = 0
    /\ DOMAIN last.calls[1].stored = {1, 2}
    /\ last.calls[1].stored[1] # last.calls[1].stored[2]
    /\ last.error = 0

\* C5: each wrap operation calls the matching entry point once, with the
\* exact format (none for PyBool_FromLong) and the caller's argument
\* unchanged, and returns the entry point's result unchanged.
C5_WrapDelegates ==
    (last.op \in WrapOps /\ last.kind = "return") =>
        /\ Len(last.calls) = 1
        /\ last.calls[1].fn = EntryPointOf(last.op)
        /\ last.calls[1].fmt = FormatOf(last.op)
        /\ last.calls[1].args = last.args
        /\ last.value = last.calls[1].ret

\* wrapBool(0) with an entry point that answers a non-NULL token.
C5_Witness ==
    /\ last.op = "wrapBool"
    /\ last.args = << 0 >>
    /\ last.kind = "return"
    /\ last.value = MaxVal
    /\ last.calls[1].fn = "PyBool_FromLong"

\* C6: with a NULL PyUnicode_FromString slot, getPyUnicode_FromString prints
\* the diagnostic and ends the process with exit status 1, without calling
\* through the slot and without returning; with a resolved slot it calls
\* the entry point once with the caller's string and returns its result.
C6_FromStringChecksSlot ==
    last.op = "getPyUnicode_FromString" =>
        IF pyunicode_fromstring = NULL
        THEN /\ last.kind = "exit"
             /\ proc = "exited"
             /\ exitStatus = 1
             /\ last.calls = << >>
             /\ Len(last.stdout) = 1
        ELSE /\ last.kind = "return"
             /\ proc = "running"
             /\ Len(last.calls) = 1
             /\ last.calls[1].target = pyunicode_fromstring
             /\ last.calls[1].fn = "PyUnicode_FromString"
             /\ last.calls[1].args = last.args
             /\ last.value = last.calls[1].ret
             /\ last.stdout = << >>

\* The slot is NULL because the library initialised from lacks the symbol.
C6_Witness ==
    /\ last.op = "getPyUnicode_FromString"
    /\ pythonLibraryHandle # NULL
    /\ pyarg_parsetuple # NULL
    /\ pyunicode_fromstring = NULL
    /\ proc = "exited"

\* C7: a shim function invoked while all six slots are NULL (before any
\* initialisePythonLibrary call, or after one that resolved nothing) never
\* completes with a normal return: it ends in the fail-fast exit or in a
\* call through a NULL pointer.
C7_NoSilentSuccessUninitialised ==
    (last.op \in ShimOps /\ AllNull) =>
        /\ last.kind \in {"exit", "nullcall"}
        /\ proc # "running"

\* A wrap operation called before any initialisation.
C7_Witness ==
    /\ pythonLibraryHandle = NULL
    /\ AllNull
    /\ last.op = "wrapLongInt"
    /\ last.kind = "nullcall"

\* C8: a shim function that returns made exactly one call, to its own entry
\* point, with its fixed format, and no symbol lookup; the parse and wrap
\* operations and the three library shims pass the caller's arguments on
\* (createPyCFunction adds a NULL third argument), and the three library
\* shims return the entry point's result unchanged.
C8_SingleCallThrough ==
    (last.op \in ShimOps /\ last.kind = "return") =>
        /\ Len(last.calls) = 1
        /\ last.lookups = << >>
        /\ last.calls[1].target = Slots[EntryPointOf(last.op)]
        /\ last.calls[1].fn = EntryPointOf(last.op)
        /\ last.calls[1].fmt = FormatOf(last.op)
        /\ last.calls[1].args =
             IF last.op = "createPyCFunction" THEN last.args \o << NULL >> ELSE last.args
        /\ last.op \in {"stringFromPythonObject", "getPyUnicode_FromString",
                        "createPyCFunction"}
             => last.value = last.calls[1].ret

\* createPyCFunction with two different non-NULL arguments and a NULL answer
\* from the entry point, which is not retried.
C8_Witness ==
    /\ last.op = "createPyCFunction"
    /\ last.kind = "return"
    /\ last.args = << 1, MaxVal >>
    /\ last.calls[1].ret = NULL

\* C9: only initialisePythonLibrary writes the six slots and the stored
\* handle: every step that is not a completed initialisePythonLibrary call
\* leaves them as they were.
C9_OnlyInitialiserWritesSlots ==
    [][ last'.op # "initialisePythonLibrary"
        => ( Slots' = Slots /\ pythonLibraryHandle' = pythonLibraryHandle ) ]_vars

\* A shim call made after an initialisation, with the slots still as resolved.
C9_Witness ==
    /\ last.op = "debug_showAddress"
    /\ pythonLibraryHandle # NULL
    /\ \A sym \in Symbols : Slots[sym] = dlsym(pythonLibraryHandle, sym)
    /\ \E sym \in Symbols : Slots[sym] # NULL

\* C10: initialisePythonLibrary writes the handle and the six slots in
\* separate unguarded steps, so it is not safe beside shim calls or beside
\* another initialisePythonLibrary: a slot table that no single handle
\* resolves to exists only while a call is inside initialisePythonLibrary or
\* after two such calls overlapped, never between calls made one at a time;
\* and such interleavings exist (C10_Witness).
C10_MixedTableOnlyWhenRacing ==
    ~FromOneHandle => (~Quiescent \/ overlapped)

\* Both interleavings in one run: a shim call that ran during an
\* initialisePythonLibrary call met a mixed slot table, and two overlapping
\* calls with different handles have both returned leaving slots that are
\* not all resolved from one handle.
C10_Witness ==
    /\ seen
    /\ Quiescent
    /\ overlapped
    /\ proc = "running"
    /\ ~FromOneHandle
    /\ started = 2
    /\ \E h1 \in Handles, h2 \in Handles :
         \A sym \in Symbols : Slots[sym] \in {dlsym(h1, sym), dlsym(h2, sym)}

====
